---------------------------- MODULE Spec2Model ----------------------------
(***************************************************************************)
(* Model of src/src/scene/SvgCurve.js (protovis): the basis-spline,        *)
(* cardinal, monotone and Hermite curve generators of pv.SvgScene.         *)
(*                                                                         *)
(* Numbers.  JavaScript numbers are modelled by exact real arithmetic:     *)
(* a rational is a record [n, d] in lowest terms with d > 0, and d = 0     *)
(* stands for a non-finite value (NaN).  The only irrational operation of  *)
(* the source is Math.sqrt in monotoneTangents; a slope is therefore kept  *)
(* as a signed square root [g, q] = g * sqrt(q), and a path coordinate as  *)
(* [a, g, q] = a + g * sqrt(q).  Floating-point rounding is not modelled.  *)
(*                                                                         *)
(* Coordinates are integers counted in units of 1e-12, the threshold of    *)
(* line 382, so that |den| <= 1e-12 reads |den| <= DenEps = 1.             *)
(*                                                                         *)
(* Strings.  A path string is the sequence of its drawing commands; the    *)
(* empty string is the empty sequence.  A result carries the JavaScript    *)
(* type of the returned value: "string", "array" (of [M, curve] pairs),    *)
(* "tangents" (array of {x, y}) or "TypeError" (a property read of         *)
(* undefined, i.e. an index outside the points array).                     *)
(***************************************************************************)
EXTENDS Integers, Sequences, FiniteSets, TLC

VARIABLES points, range, op, tension, tangents, result

vars == <<points, range, op, tension, tangents, result>>

(* ------------------------------ bounds --------------------------------- *)
MaxLen == 6
MaxMonoLen == 4

(* ---------------------------- arithmetic ------------------------------- *)
Abs(i) == IF i < 0 THEN -i ELSE i

Sign(i) == IF i < 0 THEN -1 ELSE IF i = 0 THEN 0 ELSE 1

RECURSIVE GCD(_, _)
GCD(a, b) == IF b = 0 THEN a ELSE GCD(b, a % b)

NaN == [n |-> 0, d |-> 0]

Rat(n, d) ==
  IF d = 0 THEN NaN
  ELSE LET g == GCD(Abs(n), Abs(d))
           s == IF d < 0 THEN -1 ELSE 1
       IN  [n |-> (s * n) \div g, d |-> (s * d) \div g]

R(i) == [n |-> i, d |-> 1]

RFinite(x) == x.d # 0

RAdd(x, y) ==
  IF ~RFinite(x) \/ ~RFinite(y) THEN NaN
  ELSE LET g == GCD(x.d, y.d)
       IN  Rat(x.n * (y.d \div g) + y.n * (x.d \div g), (x.d \div g) * y.d)

RNeg(x) == [n |-> -x.n, d |-> x.d]

RSub(x, y) == RAdd(x, RNeg(y))

RMul(x, y) ==
  IF ~RFinite(x) \/ ~RFinite(y) THEN NaN
  ELSE LET g1 == GCD(Abs(x.n), y.d)
           g2 == GCD(Abs(y.n), x.d)
       IN  Rat((x.n \div g1) * (y.n \div g2), (x.d \div g2) * (y.d \div g1))

(* A division by zero is non-finite. *)
RDiv(x, y) ==
  IF ~RFinite(y) \/ y.n = 0 THEN NaN
  ELSE RMul(x, IF y.n < 0 THEN [n |-> -y.d, d |-> -y.n] ELSE [n |-> y.d, d |-> y.n])

RSq(x) == RMul(x, x)

(* Comparisons with NaN are false, as in JavaScript. *)
RLt(x, y) ==
  /\ RFinite(x)
  /\ RFinite(y)
  /\ LET g == GCD(x.d, y.d) IN x.n * (y.d \div g) < y.n * (x.d \div g)

RIsZero(x) == RFinite(x) /\ x.n = 0

(* k * sqrt(q) with q > 0: the slopes m[k] of monotoneTangents.  A slope   *)
(* that no clamp has rescaled is the rational k, with q = 1.               *)
Surd(k, q) ==
  IF ~RFinite(k) \/ ~RFinite(q) THEN [k |-> NaN, q |-> NaN]
  ELSE IF k.n = 0 \/ q.n = 0 THEN [k |-> R(0), q |-> R(1)]
  ELSE [k |-> k, q |-> q]

SurdOf(x) == Surd(x, R(1))
SurdSq(m) == RMul(RSq(m.k), m.q)

(* a + k * sqrt(q): a coordinate of a tangent or of a drawing command;     *)
(* rational values have k = 0 and q = 1.                                   *)
Num(a, k, q) ==
  IF ~RFinite(a) \/ ~RFinite(k) \/ ~RFinite(q) THEN [a |-> NaN, k |-> NaN, q |-> NaN]
  ELSE IF k.n = 0 \/ q.n = 0 THEN [a |-> a, k |-> R(0), q |-> R(1)]
  ELSE IF q = R(1) THEN [a |-> RAdd(a, k), k |-> R(0), q |-> R(1)]
  ELSE [a |-> a, k |-> k, q |-> q]

NumR(x) == Num(x, R(0), R(1))
(* c + v and c - v for a rational c; v * c for a rational c. *)
NAddR(c, v) == Num(RAdd(c, v.a), v.k, v.q)
NSubR(c, v) == Num(RSub(c, v.a), RNeg(v.k), v.q)
NScale(v, c) == Num(RMul(v.a, c), RMul(v.k, c), v.q)
(* v * 2 / 3, lines 182, 209, 249, 269 *)
TwoThirds(v) == NScale(v, Rat(2, 3))
NFinite(v) == RFinite(v.a)
NIsRational(v) == NFinite(v) /\ v.k.n = 0
(* the sign of a value that is rational or purely irrational *)
NSign(v) == IF v.k.n = 0 THEN Sign(v.a.n) ELSE Sign(v.k.n)

(* ------------------------- values of the source ------------------------ *)
Cmd(k, a) == [k |-> k, a |-> a]

StringResult(cmds) == [type |-> "string", val |-> cmds]
ArrayResult(entries) == [type |-> "array", val |-> entries]
TangentsResult(ts) == [type |-> "tangents", val |-> ts]
TypeError == [type |-> "TypeError", val |-> <<>>]
NoResult == [type |-> "none", val |-> <<>>]

(* points[i] with the 0-based index of the source; undefined outside. *)
Defined(pts, i) == i >= 0 /\ i < Len(pts)
At(pts, i) == pts[i + 1]
AllDefined(pts, lo, hi) == \A i \in lo..hi : Defined(pts, i)

(* The prologue shared by every function: lines 66-73, 106-113, ... *)
Bounds(pts, rg) ==
  IF rg = <<>>
    THEN [from |-> 0, to |-> Len(pts) - 1, L |-> Len(pts)]
    ELSE [from |-> rg[1], to |-> rg[2], L |-> rg[2] - rg[1] + 1]


(* ------------------------------ pathBasis ------------------------------ *)
basis ==
  << <<Rat(1, 6), Rat(2, 3), Rat(1, 6), R(0)>>,
     <<R(0),      Rat(2, 3), Rat(1, 3), R(0)>>,
     <<R(0),      Rat(1, 3), Rat(2, 3), R(0)>>,
     <<R(0),      Rat(1, 6), Rat(2, 3), Rat(1, 6)>> >>

Sum4(w, a, b, c, d) ==
  RAdd(RAdd(RAdd(RMul(w[1], R(a)), RMul(w[2], R(b))), RMul(w[3], R(c))),
       RMul(w[4], R(d)))

weight(w, p0, p1, p2, p3) ==
  [x |-> NumR(Sum4(w, p0.left, p1.left, p2.left, p3.left)),
   y |-> NumR(Sum4(w, p0.top, p1.top, p2.top, p3.top))]

(* convert: the string "C" b1 b2 b3, a path of one command *)
pathBasis(p0, p1, p2, p3) ==
  LET b1 == weight(basis[2], p0, p1, p2, p3)
      b2 == weight(basis[3], p0, p1, p2, p3)
      b3 == weight(basis[4], p0, p1, p2, p3)
  IN  <<Cmd("C", <<b1.x, b1.y, b2.x, b2.y, b3.x, b3.y>>)>>

(* Fault variant of convert.segment: b0 taken from row 1 of the matrix. *)
pathBasisSegment_MoveRow1(p0, p1, p2, p3) ==
  LET b0 == weight(basis[2], p0, p1, p2, p3)
  IN  << <<Cmd("M", <<b0.x, b0.y>>)>>, pathBasis(p0, p1, p2, p3) >>

(* convert.segment: the pair ["M" b0, "C" b1 b2 b3] *)
pathBasisSegment(p0, p1, p2, p3) ==
  LET b0 == weight(basis[1], p0, p1, p2, p3)
  IN  << <<Cmd("M", <<b0.x, b0.y>>)>>, pathBasis(p0, p1, p2, p3) >>

(* ------------------------------ curveBasis ----------------------------- *)
(* The loop of lines 83-89 followed by lines 91-92; w is <<p0,p1,p2,p3>>. *)
RECURSIVE BasisLoop(_, _, _, _, _)
BasisLoop(pts, i, to, w, path) ==
  IF i <= to
    THEN LET w2 == <<w[2], w[3], w[4], At(pts, i)>>
         IN  BasisLoop(pts, i + 1, to, w2,
                       path \o pathBasis(w2[1], w2[2], w2[3], w2[4]))
    ELSE path \o pathBasis(w[2], w[3], w[4], w[4])
              \o pathBasis(w[3], w[4], w[4], w[4])

curveBasis(pts, rg) ==
  LET b == Bounds(pts, rg)
  IN  IF b.L <= 2 THEN StringResult(<<>>)
      ELSE IF ~AllDefined(pts, b.from, b.to) THEN TypeError
      ELSE LET p0 == At(pts, b.from)
               p3 == At(pts, b.from + 1)
           IN  StringResult(BasisLoop(pts, b.from + 2, b.to, <<p0, p0, p0, p3>>,
                                      pathBasis(p0, p0, p0, p3)))

(* -------------------------- curveBasisSegments ------------------------- *)
(* The loop of lines 131-137 followed by lines 140-142. *)
RECURSIVE BasisSegmentsLoop(_, _, _, _, _)
BasisSegmentsLoop(pts, i, to, w, paths) ==
  IF i <= to
    THEN LET w2 == <<w[2], w[3], w[4], At(pts, i)>>
         IN  BasisSegmentsLoop(pts, i + 1, to, w2,
                 Append(paths, pathBasisSegment(w2[1], w2[2], w2[3], w2[4])))
    ELSE LET lastPath == pathBasisSegment(w[2], w[3], w[4], w[4])
         IN  Append(paths,
                    <<lastPath[1],
                      lastPath[2] \o pathBasis(w[3], w[4], w[4], w[4])>>)

(* Fault variant of line 131: the interior loop starts one point late. *)
BasisSegmentsLoopStart_Late(from) == from + 4

(* The loop bounds of line 131: the first index the interior loop reads. *)
BasisSegmentsLoopStart(from) == from + 3

curveBasisSegments(pts, rg) ==
  LET b == Bounds(pts, rg)
  IN  IF b.L <= 2 THEN StringResult(<<>>)
      ELSE IF ~AllDefined(pts, b.from, b.to) THEN TypeError
      ELSE LET p0 == At(pts, b.from)
               p3 == At(pts, b.from + 1)
               first == pathBasisSegment(p0, p0, p0, p3)
               q3 == At(pts, b.from + 2)
               firstPath == <<first[1], first[2] \o pathBasis(p0, p0, p3, q3)>>
           IN  ArrayResult(BasisSegmentsLoop(pts, BasisSegmentsLoopStart(b.from),
                                             b.to, <<p0, p0, p3, q3>>,
                                             <<firstPath>>))

(* ------------------------------ curveHermite --------------------------- *)
PX(p) == R(p.left)
PY(p) == R(p.top)

(* Fault variants of the guard: the drivers' gate L <= 2 added; and       *)
(* "at least T + 2 points" instead of "exactly T + 2 points".             *)
HermiteRejects_ShortGate(L, T) == T < 1 \/ (L # T /\ L # T + 2) \/ L <= 2

HermiteRejects_AtLeast(L, T) == T < 1 \/ (L # T /\ L < T + 2)

(* The guard of lines 168 and 234. *)
HermiteRejects(L, T) == T < 1 \/ (L # T /\ L # T + 2)

(* "Q" (p - t * 2 / 3) p, lines 181-183 *)
QuadIn(p, t) ==
  Cmd("Q", <<NSubR(PX(p), TwoThirds(t.x)), NSubR(PY(p), TwoThirds(t.y)),
             NumR(PX(p)), NumR(PY(p))>>)

(* Fault variant of lines 208-210: the closing Q ends at p instead of lp. *)
QuadOut_EndsAtP(p, t, lp) ==
  Cmd("Q", <<NAddR(PX(p), TwoThirds(t.x)), NAddR(PY(p), TwoThirds(t.y)),
             NumR(PX(p)), NumR(PY(p))>>)

(* "Q" (p + t * 2 / 3) lp, lines 208-210 *)
QuadOut(p, t, lp) ==
  Cmd("Q", <<NAddR(PX(p), TwoThirds(t.x)), NAddR(PY(p), TwoThirds(t.y)),
             NumR(PX(lp)), NumR(PY(lp))>>)

(* "C" (p0 + t0) (p - t) p, lines 192-195 and 261-263 *)
Cubic(p0, t0, p, t) ==
  Cmd("C", <<NAddR(PX(p0), t0.x), NAddR(PY(p0), t0.y),
             NSubR(PX(p), t.x), NSubR(PY(p), t.y),
             NumR(PX(p)), NumR(PY(p))>>)

(* "S" (p - t) p, lines 200-202 *)
Smooth(p, t) ==
  Cmd("S", <<NSubR(PX(p), t.x), NSubR(PY(p), t.y), NumR(PX(p)), NumR(PY(p))>>)

MoveTo(p) == Cmd("M", <<NumR(PX(p)), NumR(PY(p))>>)

(* The loop of lines 197-203; i is the 0-based tangent index. *)
RECURSIVE HermiteLoop(_, _, _, _, _, _)
HermiteLoop(pts, tans, i, T, pi, path) ==
  IF i < T
    THEN HermiteLoop(pts, tans, i + 1, T, pi + 1,
                     Append(path, Smooth(At(pts, pi), tans[i + 1])))
    ELSE [path |-> path, pi |-> pi]

(* The indices of points whose properties an accepted call reads. *)
HermiteReads(from, to, L, T) ==
  IF L # T THEN (from + 1)..to ELSE IF T > 1 THEN from..to ELSE {}

curveHermite(pts, tans, rg) ==
  LET b == Bounds(pts, rg)
      T == Len(tans)
      quad == b.L # T
  IN  IF HermiteRejects(b.L, T) THEN StringResult(<<>>)
      ELSE IF \E i \in HermiteReads(b.from, b.to, b.L, T) : ~Defined(pts, i)
        THEN TypeError
      ELSE
        LET t0 == tans[1]
            path1 == IF quad THEN <<QuadIn(At(pts, b.from + 1), t0)>> ELSE <<>>
            p0 == IF quad THEN At(pts, b.from + 1) ELSE At(pts, b.from)
            pi1 == IF quad THEN b.from + 2 ELSE b.from + 1
            body ==
              IF T > 1
                THEN HermiteLoop(pts, tans, 2, T, pi1 + 1,
                       Append(path1, Cubic(p0, t0, At(pts, pi1), tans[2])))
                ELSE [path |-> path1, pi |-> pi1]
            (* p and t as the loop leaves them *)
            p == IF T > 1 THEN At(pts, body.pi - 1) ELSE At(pts, b.from + 1)
            t == tans[T]
        IN  StringResult(IF quad
                           THEN Append(body.path, QuadOut(p, t, At(pts, body.pi)))
                           ELSE body.path)

(* -------------------------- curveHermiteSegments ----------------------- *)
(* The loop of lines 255-264; p and t are the values of the last pass. *)
RECURSIVE HermiteSegmentsLoop(_, _, _, _, _, _, _, _)
HermiteSegmentsLoop(pts, tans, i, T, pi, p, t, paths) ==
  IF i < T
    THEN LET p2 == At(pts, pi)
             t2 == tans[i + 1]
         IN  HermiteSegmentsLoop(pts, tans, i + 1, T, pi + 1, p2, t2,
                 Append(paths, << <<MoveTo(p)>>, <<Cubic(p, t, p2, t2)>> >>))
    ELSE [paths |-> paths, pi |-> pi, p |-> p, t |-> t]

HermiteSegmentsReads(from, to, L, T) ==
  IF L # T \/ T > 1 THEN from..to ELSE {}

curveHermiteSegments(pts, tans, rg) ==
  LET b == Bounds(pts, rg)
      T == Len(tans)
      quad == b.L # T
  IN  IF HermiteRejects(b.L, T) THEN ArrayResult(<<>>)
      ELSE IF \E i \in HermiteSegmentsReads(b.from, b.to, b.L, T) : ~Defined(pts, i)
        THEN TypeError
      ELSE IF ~quad /\ T = 1 THEN ArrayResult(<<>>)
      ELSE
        LET t0 == tans[1]
            p0 == At(pts, b.from)
            p1 == IF quad THEN At(pts, b.from + 1) ELSE p0
            paths1 == IF quad
                        THEN << << <<MoveTo(p0)>>, <<QuadIn(p1, t0)>> >> >>
                        ELSE <<>>
            pi1 == IF quad THEN b.from + 2 ELSE b.from + 1
            body == HermiteSegmentsLoop(pts, tans, 1, T, pi1, p1, t0, paths1)
        IN  ArrayResult(IF quad
                          THEN Append(body.paths,
                                 << <<MoveTo(body.p)>>,
                                    <<QuadOut(body.p, body.t, At(pts, body.pi))>> >>)
                          ELSE body.paths)

(* ----------------------------- cardinalTangents ------------------------ *)
(* Fault variant of lines 301, 307: the tension is ignored (a = 1 / 2). *)
CardinalTangent_NoTension(a, p0, p2) ==
  [x |-> NumR(Rat(p2.left - p0.left, 2)), y |-> NumR(Rat(p2.top - p0.top, 2))]

(* {x: a * (p2.left - p0.left), y: a * (p2.top - p0.top)}, lines 301, 307 *)
CardinalTangent(a, p0, p2) ==
  [x |-> NumR(RMul(a, R(p2.left - p0.left))),
   y |-> NumR(RMul(a, R(p2.top - p0.top)))]

(* The loop of lines 300-305 followed by line 307; w is <<p0, p1, p2>>. *)
RECURSIVE CardinalLoop(_, _, _, _, _, _)
CardinalLoop(pts, a, i, to, w, tans) ==
  IF i <= to
    THEN CardinalLoop(pts, a, i + 1, to, <<w[2], w[3], i>>,
                      Append(tans, CardinalTangent(a, At(pts, w[1]), At(pts, w[3]))))
    ELSE Append(tans, CardinalTangent(a, At(pts, w[1]), At(pts, w[3])))

(* The indices of points whose properties the pushes read. *)
CardinalReads(from, to) ==
  IF to >= from + 3 THEN from..to ELSE {from, from + 2}

cardinalTangents(pts, tens, rg) ==
  LET b == Bounds(pts, rg)
      a == RDiv(RSub(R(1), tens), R(2))
  IN  IF \E i \in CardinalReads(b.from, b.to) : ~Defined(pts, i) THEN TypeError
      ELSE TangentsResult(CardinalLoop(pts, a, b.from + 3, b.to,
                                       <<b.from, b.from + 1, b.from + 2>>, <<>>))

(* Fault variant of line 331: the tangents are computed without the range. *)
curveCardinal_WholeTangents(pts, tens, rg) ==
  LET b == Bounds(pts, rg)
  IN  IF b.L <= 2 THEN StringResult(<<>>)
      ELSE LET ts == cardinalTangents(pts, tens, <<>>)
           IN  IF ts.type = "TypeError" THEN TypeError
               ELSE curveHermite(pts, ts.val, rg)

(* Lines 320-332; a call whose argument raised raises. *)
curveCardinal(pts, tens, rg) ==
  LET b == Bounds(pts, rg)
  IN  IF b.L <= 2 THEN StringResult(<<>>)
      ELSE LET ts == cardinalTangents(pts, tens, rg)
           IN  IF ts.type = "TypeError" THEN TypeError
               ELSE curveHermite(pts, ts.val, rg)

curveCardinalSegments(pts, tens, rg) ==
  LET b == Bounds(pts, rg)
  IN  IF b.L <= 2 THEN StringResult(<<>>)
      ELSE LET ts == cardinalTangents(pts, tens, rg)
           IN  IF ts.type = "TypeError" THEN TypeError
               ELSE curveHermiteSegments(pts, ts.val, rg)

(* ----------------------------- monotoneTangents ------------------------ *)
(* 1e-12 of line 382 in coordinate units; 1 / 1e-5 of line 405 *)
DenEps == 1
SlopeEpsInv == 100000

(* d[k], line 381-382, for the points j = from + k and j + 1 *)
Secant(pj, pj1) ==
  LET den == pj1.left - pj.left
  IN  IF Abs(den) <= DenEps THEN R(0) ELSE Rat(pj1.top - pj.top, den)

(* Math.abs(m) < 1e-5, line 405: m * m < 1e-10 *)
AbsLtSlopeEps(m) ==
  LET m2 == SurdSq(m)
  IN  RFinite(m2) /\ m2.n <= ((m2.d - 1) \div SlopeEpsInv) \div SlopeEpsInv

(* Lines 379-383: the secants d[0 .. L-2] *)
Secants(pts, from, L) ==
  [k1 \in 1..(IF L >= 2 THEN L - 1 ELSE 0) |->
     Secant(At(pts, from + k1 - 1), At(pts, from + k1))]

(* d[k] of an array read: undefined (NaN in arithmetic) outside the array *)
DAt(d, k) == IF k >= 0 /\ k < Len(d) THEN d[k + 1] ELSE NaN

(* Lines 386-393: the initial slopes m[] *)
InitialSlopes(d, L) ==
  LET last == IF L >= 2 THEN L - 1 ELSE 1
  IN  [k1 \in 1..(last + 1) |->
         LET k == k1 - 1
         IN  IF k = 0 THEN SurdOf(DAt(d, 0))
             ELSE IF k = last THEN SurdOf(DAt(d, k - 1))
             ELSE SurdOf(RDiv(RAdd(DAt(d, k - 1), DAt(d, k)), R(2)))]

(* Lines 387-393: the extents dx[] *)
Extents(pts, from, L) ==
  LET last == IF L >= 2 THEN L - 1 ELSE 1
  IN  [k1 \in 1..(last + 1) |->
         LET k == k1 - 1
             j == from + k
         IN  IF k = 0 THEN R(At(pts, from + 1).left - At(pts, from).left)
             ELSE IF k = last THEN R(At(pts, j).left - At(pts, j - 1).left)
             ELSE Rat(At(pts, j + 1).left - At(pts, j - 1).left, 2)]

(* Fault variant of lines 396-401: only m[k] is zeroed, not m[k+1]. *)
RECURSIVE FlattenLoop_OnlyLeft(_, _, _, _)
FlattenLoop_OnlyLeft(d, m, k, L) ==
  IF k < L - 1
    THEN FlattenLoop_OnlyLeft(d,
           IF RIsZero(d[k + 1]) THEN [m EXCEPT ![k + 1] = SurdOf(R(0))] ELSE m,
           k + 1, L)
    ELSE m

(* Lines 396-401: step 3 *)
RECURSIVE FlattenLoop(_, _, _, _)
FlattenLoop(d, m, k, L) ==
  IF k < L - 1
    THEN FlattenLoop(d,
           IF RIsZero(d[k + 1])
             THEN [m EXCEPT ![k + 1] = SurdOf(R(0)), ![k + 2] = SurdOf(R(0))]
             ELSE m,
           k + 1, L)
    ELSE m

(* Lines 406-413: the clamp of the pair (m[k], m[k+1]) against d[k];      *)
(* tk * ak * d[k] with tk = 3 / sqrt(s) is (3 * ak * d[k]) * sqrt(1 / s).  *)
Clamp(mk, mk1, dk) ==
  LET d2 == RSq(dk)
      s == RAdd(RDiv(SurdSq(mk), d2), RDiv(SurdSq(mk1), d2))
  IN  IF RLt(R(9), s)
        THEN <<Surd(RMul(RMul(R(3), RDiv(mk.k, dk)), dk), RDiv(mk.q, s)),
               Surd(RMul(RMul(R(3), RDiv(mk1.k, dk)), dk), RDiv(mk1.q, s))>>
        ELSE <<mk, mk1>>

(* Lines 404-414: steps 4 and 5 *)
RECURSIVE ClampLoop(_, _, _, _)
ClampLoop(d, m, k, L) ==
  IF k < L - 1
    THEN ClampLoop(d,
           IF AbsLtSlopeEps(m[k + 1]) \/ AbsLtSlopeEps(m[k + 2])
             THEN m
             ELSE LET c == Clamp(m[k + 1], m[k + 2], d[k + 1])
                  IN  [m EXCEPT ![k + 1] = c[1], ![k + 2] = c[2]],
           k + 1, L)
    ELSE m

(* Lines 418-419: {x: dx / 3 / len, y: m * dx / 3 / len} *)
MonotoneTangent(m, dx) ==
  LET len == RAdd(R(1), SurdSq(m))
      c == RDiv(RDiv(dx, R(3)), len)
  IN  [x |-> NumR(c), y |-> Num(R(0), RMul(m.k, c), m.q)]

(* The final slopes m[] after steps 3, 4 and 5 *)
MonotoneSlopes(pts, from, L) ==
  LET d == Secants(pts, from, L)
  IN  ClampLoop(d, FlattenLoop(d, InitialSlopes(d, L), 0, L), 0, L)

(* The indices of points whose properties are read. *)
MonotoneReads(from, to) == {from, from + 1} \cup from..to

monotoneTangents(pts, rg) ==
  LET b == Bounds(pts, rg)
  IN  IF \E i \in MonotoneReads(b.from, b.to) : ~Defined(pts, i) THEN TypeError
      ELSE LET m == MonotoneSlopes(pts, b.from, b.L)
               dx == Extents(pts, b.from, b.L)
           IN  TangentsResult([i1 \in 1..(IF b.L >= 0 THEN b.L ELSE 0) |->
                                 MonotoneTangent(m[i1], dx[i1])])

curveMonotone(pts, rg) ==
  LET b == Bounds(pts, rg)
  IN  IF b.L <= 2 THEN StringResult(<<>>)
      ELSE LET ts == monotoneTangents(pts, rg)
           IN  IF ts.type = "TypeError" THEN TypeError
               ELSE curveHermite(pts, ts.val, rg)

curveMonotoneSegments(pts, rg) ==
  LET b == Bounds(pts, rg)
  IN  IF b.L <= 2 THEN StringResult(<<>>)
      ELSE LET ts == monotoneTangents(pts, rg)
           IN  IF ts.type = "TypeError" THEN TypeError
               ELSE curveHermiteSegments(pts, ts.val, rg)

(* ------------------------------- inputs -------------------------------- *)
Pt(x, y) == [left |-> x, top |-> y]

(* Chart data: the i-th point (from 0) lies at left = i * i, so that every *)
(* horizontal distance differs, and at one of two heights.                 *)
Tops == {0, 3}

PointSeqs ==
  UNION {{[i \in 1..n |-> Pt((i - 1) * (i - 1), tp[i])] : tp \in [1..n -> Tops]} :
           n \in 0..MaxLen}

(* from and to omitted, or an inclusive in-bounds range of length >= 0 *)
Ranges(pts) ==
  {<<>>} \cup {r \in (0..(Len(pts) - 1)) \X (-1..(Len(pts) - 1)) : r[2] >= r[1] - 1}

Tensions == {R(0), Rat(1, 2), R(1)}

TangentSeqs ==
  {[i \in 1..T |-> [x |-> NumR(R(3 * i)), y |-> NumR(R(6 - 3 * i))]] :
     T \in 0..(MaxLen + 1)}

(* Monotone data: a walk from the origin by (run, rise) steps.  A run of 1 *)
(* is a horizontal distance of 1e-12.                                      *)
Runs == {1, 2, 3}
Rises == {-1, 0, 1, 4}

RECURSIVE Walk(_, _, _)
Walk(steps, i, acc) ==
  IF i > Len(steps) THEN acc
  ELSE LET p == acc[Len(acc)]
       IN  Walk(steps, i + 1,
                Append(acc, Pt(p.left + steps[i][1], p.top + steps[i][2])))

MonoPointSeqs ==
  {<<>>} \cup
  {Walk(st, 1, <<Pt(0, 0)>>) :
     st \in UNION {[1..n -> Runs \X Rises] : n \in 0..(MaxMonoLen - 1)}}

(* omitted, the range without the last point, the range without the first *)
MonoRanges(pts) ==
  {<<>>} \cup (IF Len(pts) >= 2
                THEN {<<0, Len(pts) - 2>>, <<1, Len(pts) - 1>>}
                ELSE {})

(* ---------------------------- state machine ---------------------------- *)
Init ==
  /\ points \in PointSeqs
  /\ range \in Ranges(points)
  /\ op = "none"
  /\ tension = R(0)
  /\ tangents = <<>>
  /\ result = NoResult

InitMonotone ==
  /\ points \in MonoPointSeqs
  /\ range \in MonoRanges(points)
  /\ op = "none"
  /\ tension = R(0)
  /\ tangents = <<>>
  /\ result = NoResult

(* One call of a public function on the inputs; the functions keep no state. *)
Call(name, tens, tans, res) ==
  /\ op = "none"
  /\ op' = name
  /\ tension' = tens
  /\ tangents' = tans
  /\ result' = res
  /\ UNCHANGED <<points, range>>

Call_curveBasis ==
  Call("curveBasis", tension, tangents, curveBasis(points, range))

Call_curveBasisSegments ==
  Call("curveBasisSegments", tension, tangents, curveBasisSegments(points, range))

Call_curveHermite ==
  \E ts \in TangentSeqs :
    Call("curveHermite", tension, ts, curveHermite(points, ts, range))

Call_curveHermiteSegments ==
  \E ts \in TangentSeqs :
    Call("curveHermiteSegments", tension, ts, curveHermiteSegments(points, ts, range))

Call_cardinalTangents ==
  \E tn \in Tensions :
    Call("cardinalTangents", tn, tangents, cardinalTangents(points, tn, range))

Call_curveCardinal ==
  \E tn \in Tensions :
    Call("curveCardinal", tn, tangents, curveCardinal(points, tn, range))

Call_curveCardinalSegments ==
  \E tn \in Tensions :
    Call("curveCardinalSegments", tn, tangents,
         curveCardinalSegments(points, tn, range))

Call_monotoneTangents ==
  Call("monotoneTangents", tension, tangents, monotoneTangents(points, range))

Call_curveMonotone ==
  Call("curveMonotone", tension, tangents, curveMonotone(points, range))

Call_curveMonotoneSegments ==
  Call("curveMonotoneSegments", tension, tangents,
       curveMonotoneSegments(points, range))

Next ==
  \/ Call_curveBasis
  \/ Call_curveBasisSegments
  \/ Call_curveHermite
  \/ Call_curveHermiteSegments
  \/ Call_cardinalTangents
  \/ Call_curveCardinal
  \/ Call_curveCardinalSegments
  \/ Call_monotoneTangents
  \/ Call_curveMonotone
  \/ Call_curveMonotoneSegments

Spec == Init /\ [][Next]_vars

NextMonotone == Call_monotoneTangents

SpecMonotone == InitMonotone /\ [][NextMonotone]_vars

(* ------------------------------ properties ----------------------------- *)
(* The range of the call in the current state. *)
From == Bounds(points, range).from
To == Bounds(points, range).to
RangeLen == Bounds(points, range).L
T == Len(tangents)

ContinuousDrivers == {"curveBasis", "curveCardinal", "curveMonotone"}
SegmentDrivers ==
  {"curveBasisSegments", "curveCardinalSegments", "curveMonotoneSegments"}

EmptyString == StringResult(<<>>)
EmptyArray == ArrayResult(<<>>)

Kinds(cmds) == [i \in 1..Len(cmds) |-> cmds[i].k]
(* the point a drawing command ends at *)
EndOf(cmd) == <<cmd.a[Len(cmd.a) - 1], cmd.a[Len(cmd.a)]>>
(* the control point next to the end point of a C, S or Q command *)
LastControlOf(cmd) == <<cmd.a[Len(cmd.a) - 3], cmd.a[Len(cmd.a) - 2]>>
FirstControlOf(cmd) == <<cmd.a[1], cmd.a[2]>>
Coords(p) == <<NumR(PX(p)), NumR(PY(p))>>

(* C1: on a range of length 0, 1 or 2 each of the six curve drivers        *)
(* returns the empty value of its own output type: the empty path for the  *)
(* continuous drivers, an empty array (not a string) for the segment       *)
(* drivers.                                                                *)
C1_ShortRangeEmptyOfOwnType ==
  RangeLen <= 2 =>
    /\ op \in ContinuousDrivers => result = EmptyString
    /\ op \in SegmentDrivers => result = EmptyArray

(* C2: the Hermite evaluator draws nothing for a range of length <= 2,     *)
(* whatever the number of tangents: curveHermite returns the empty path    *)
(* and curveHermiteSegments an array with no entry.                        *)
C2_NoCurveBelowThreePoints ==
  RangeLen <= 2 =>
    /\ op = "curveHermite" => result = EmptyString
    /\ op = "curveHermiteSegments" => result = EmptyArray

(* C2 as amended: for a range of length <= 2 the Hermite evaluator returns *)
(* the empty path / an array with no entry, except when T = L = 2, where   *)
(* the call is accepted as a full-tangent call and one cubic command (one  *)
(* [MoveTo, CubicTo] entry) from points[from] to points[to] is returned.   *)
C2_EmptyBelowThreeExceptTwoTangents ==
  RangeLen <= 2 =>
    /\ op = "curveHermite" =>
         IF RangeLen = 2 /\ T = 2
           THEN /\ result.type = "string"
                /\ Kinds(result.val) = <<"C">>
                /\ EndOf(result.val[1]) = Coords(At(points, To))
           ELSE result = EmptyString
    /\ op = "curveHermiteSegments" =>
         IF RangeLen = 2 /\ T = 2
           THEN /\ result.type = "array"
                /\ Len(result.val) = 1
                /\ result.val[1][1] = <<MoveTo(At(points, From))>>
                /\ Kinds(result.val[1][2]) = <<"C">>
                /\ EndOf(result.val[1][2][1]) = Coords(At(points, To))
           ELSE result = EmptyArray

C2_Witness ==
  /\ op = "curveHermiteSegments"
  /\ RangeLen = 2
  /\ T = 2
  /\ From > 0
  /\ result.type = "array"
  /\ Len(result.val) = 1

(* C3: with a tangent count T that is neither L nor L - 2 the Hermite      *)
(* evaluator returns the empty path / an empty array: no command is        *)
(* emitted and no error is raised.                                         *)
C3_MismatchedTangentsEmpty ==
  (T # RangeLen /\ T # RangeLen - 2) =>
    /\ op = "curveHermite" => result = EmptyString
    /\ op = "curveHermiteSegments" => result = EmptyArray

C3_Witness ==
  /\ op = "curveHermite"
  /\ RangeLen >= 4
  /\ T = RangeLen - 3
  /\ result = EmptyString

(* C4: curveBasisSegments on a range of exactly 5 points returns exactly   *)
(* 3 entries: the first two segments merged, one single interior segment,  *)
(* the last two segments merged.                                           *)
CurveCounts(entries) == [i \in 1..Len(entries) |-> Len(entries[i][2])]

C4_FivePointsThreeEntries ==
  (op = "curveBasisSegments" /\ RangeLen = 5) =>
    /\ result.type = "array"
    /\ CurveCounts(result.val) = <<2, 1, 2>>

(* C4 as amended: curveBasisSegments on a range of exactly 5 points        *)
(* returns exactly 4 entries: the first holds the first two logical        *)
(* segments merged, two interior entries hold one segment each, and the    *)
(* last holds the last two logical segments merged.                        *)
C4_FivePointsFourEntries ==
  (op = "curveBasisSegments" /\ RangeLen = 5) =>
    /\ result.type = "array"
    /\ CurveCounts(result.val) = <<2, 1, 1, 2>>
    /\ LET logical == curveBasis(points, range).val
       IN  /\ result.val[1][2] = SubSeq(logical, 1, 2)
           /\ result.val[2][2] = SubSeq(logical, 3, 3)
           /\ result.val[3][2] = SubSeq(logical, 4, 4)
           /\ result.val[4][2] = SubSeq(logical, 5, 6)

C4_Witness ==
  /\ op = "curveBasisSegments"
  /\ RangeLen = 5
  /\ From > 0
  /\ result.type = "array"
  /\ Len(result.val) = 4

(* C5: every public operation returns a value and never raises, for any    *)
(* point sequence (also empty or of 1 or 2 points) and any in-bounds or    *)
(* omitted range.                                                          *)
C5_NeverRaises == result.type # "TypeError"

(* C6: an accepted call of curveHermite (T >= 1 and T = L or T = L - 2)    *)
(* emits exactly L - 1 commands, the k-th ending at points[from + k]; with *)
(* T = L the kinds are C, S, S, ...; with T = L - 2 they are Q, then C     *)
(* followed only by S (none when T = 1), then Q.                           *)
FullKinds(n) == [k \in 1..n |-> IF k = 1 THEN "C" ELSE "S"]
QuadKinds(n) ==
  [k \in 1..n |-> IF k = 1 \/ k = n THEN "Q" ELSE IF k = 2 THEN "C" ELSE "S"]

C6_HermiteCommandShape ==
  (op = "curveHermite" /\ T >= 1 /\ (T = RangeLen \/ T = RangeLen - 2)) =>
    /\ result.type = "string"
    /\ Len(result.val) = RangeLen - 1
    /\ \A k \in 1..(RangeLen - 1) :
         EndOf(result.val[k]) = Coords(At(points, From + k))
    /\ T = RangeLen => Kinds(result.val) = FullKinds(RangeLen - 1)
    /\ T = RangeLen - 2 => Kinds(result.val) = QuadKinds(RangeLen - 1)

C6_Witness ==
  /\ op = "curveHermite"
  /\ From > 0
  /\ T = RangeLen - 2
  /\ T = 3
  /\ result.type = "string"
  /\ Kinds(result.val) = <<"Q", "C", "S", "Q">>

(* C7: for a range of L >= 3 points cardinalTangents returns exactly L - 2 *)
(* tangents, the i-th being a * (points[from+i+1] - points[from+i-1]) with *)
(* a = (1 - tension) / 2; with tension = 1 every tangent is the zero       *)
(* vector.                                                                 *)
ZeroVector == [x |-> NumR(R(0)), y |-> NumR(R(0))]

CardinalExpected(i) ==
  LET a == RDiv(RSub(R(1), tension), R(2))
      next == At(points, From + i + 1)
      prev == At(points, From + i - 1)
  IN  [x |-> NumR(RMul(a, RSub(PX(next), PX(prev)))),
       y |-> NumR(RMul(a, RSub(PY(next), PY(prev))))]

C7_CardinalTangents ==
  (op = "cardinalTangents" /\ RangeLen >= 3) =>
    /\ result.type = "tangents"
    /\ Len(result.val) = RangeLen - 2
    /\ \A i \in 1..(RangeLen - 2) : result.val[i] = CardinalExpected(i)
    /\ tension = R(1) => \A i \in 1..(RangeLen - 2) : result.val[i] = ZeroVector

C7_Witness ==
  /\ op = "cardinalTangents"
  /\ RangeLen >= 4
  /\ From > 0
  /\ tension = Rat(1, 2)
  /\ result.type = "tangents"
  /\ \A i \in 1..Len(result.val) : result.val[i].y # NumR(R(0))

(* C8: on a range of L >= 2 points with strictly increasing x and          *)
(* non-decreasing y, monotoneTangents returns exactly L tangents, each     *)
(* with horizontal component > 0 and vertical component >= 0, and both     *)
(* tangents next to a flat secant (equal heights, or a horizontal run of   *)
(* at most 1e-12) have vertical component exactly 0 in the final result.   *)
MonotoneData ==
  \A j \in From..(To - 1) :
    /\ At(points, j + 1).left > At(points, j).left
    /\ At(points, j + 1).top >= At(points, j).top

FlatSecant(j) ==
  \/ At(points, j + 1).top = At(points, j).top
  \/ Abs(At(points, j + 1).left - At(points, j).left) <= DenEps

C8_MonotoneTangents ==
  (op = "monotoneTangents" /\ RangeLen >= 2 /\ MonotoneData) =>
    /\ result.type = "tangents"
    /\ Len(result.val) = RangeLen
    /\ \A i \in 1..RangeLen :
         /\ NFinite(result.val[i].x) /\ NSign(result.val[i].x) > 0
         /\ NFinite(result.val[i].y) /\ NSign(result.val[i].y) >= 0
    /\ \A k \in 0..(RangeLen - 2) :
         FlatSecant(From + k) =>
           /\ result.val[k + 1].y = NumR(R(0))
           /\ result.val[k + 2].y = NumR(R(0))

(* a flat secant next to a rising one, and a slope rescaled by the clamp *)
C8_Witness ==
  /\ op = "monotoneTangents"
  /\ RangeLen = 4
  /\ MonotoneData
  /\ result.type = "tangents"
  /\ FlatSecant(From + 2)
  /\ ~FlatSecant(From + 1)
  /\ \E i \in 1..RangeLen : ~NIsRational(result.val[i].y)

(* C9: on a range of L >= 3 points the cardinal and monotone drivers are   *)
(* never empty: curveCardinal yields L - 1 commands beginning and ending   *)
(* with Q, curveMonotone L - 1 commands beginning with C and without Q,    *)
(* the segment drivers L - 1 entries each; the k-th command or entry ends  *)
(* at points[from + k] and is built from the tangent computed for that     *)
(* point, also under a non-zero from.                                      *)
PointPlus(p, t) == <<NAddR(PX(p), t.x), NAddR(PY(p), t.y)>>
PointMinus(p, t) == <<NSubR(PX(p), t.x), NSubR(PY(p), t.y)>>
TwoThirdsOf(t) == [x |-> TwoThirds(t.x), y |-> TwoThirds(t.y)]
P(k) == At(points, From + k)
(* the tangent of the point from + k: cardinal 1 <= k <= L - 2, monotone 0 <= k < L *)
CardTan(k) == CardinalExpected(k)
MonoTan(k) == monotoneTangents(points, range).val[k + 1]

(* the k-th curve command of a cardinal curve of n = L - 1 commands *)
CardinalCommandOk(cmd, k, n) ==
  /\ EndOf(cmd) = Coords(P(k))
  /\ k = 1 => /\ cmd.k = "Q"
              /\ FirstControlOf(cmd) = PointMinus(P(1), TwoThirdsOf(CardTan(1)))
  /\ k = n => /\ cmd.k = "Q"
              /\ FirstControlOf(cmd) = PointPlus(P(n - 1), TwoThirdsOf(CardTan(n - 1)))
  /\ (1 < k /\ k < n) => /\ cmd.k \in {"C", "S"}
                         /\ LastControlOf(cmd) = PointMinus(P(k), CardTan(k))

MonotoneCommandOk(cmd, k) ==
  /\ EndOf(cmd) = Coords(P(k))
  /\ cmd.k \in {"C", "S"}
  /\ LastControlOf(cmd) = PointMinus(P(k), MonoTan(k))
  /\ cmd.k = "C" => FirstControlOf(cmd) = PointPlus(P(k - 1), MonoTan(k - 1))

EntryOk(e, k) == Len(e) = 2 /\ e[1] = <<MoveTo(P(k - 1))>> /\ Len(e[2]) = 1

C9_DriversDelegateAligned ==
  RangeLen >= 3 =>
    LET n == RangeLen - 1
    IN  /\ op = "curveCardinal" =>
             /\ result.type = "string"
             /\ Len(result.val) = n
             /\ \A k \in 1..n : CardinalCommandOk(result.val[k], k, n)
        /\ op = "curveCardinalSegments" =>
             /\ result.type = "array"
             /\ Len(result.val) = n
             /\ \A k \in 1..n : /\ EntryOk(result.val[k], k)
                                /\ CardinalCommandOk(result.val[k][2][1], k, n)
        /\ op = "curveMonotone" =>
             /\ result.type = "string"
             /\ Len(result.val) = n
             /\ result.val[1].k = "C"
             /\ \A k \in 1..n : MonotoneCommandOk(result.val[k], k)
        /\ op = "curveMonotoneSegments" =>
             /\ result.type = "array"
             /\ Len(result.val) = n
             /\ \A k \in 1..n : /\ EntryOk(result.val[k], k)
                                /\ MonotoneCommandOk(result.val[k][2][1], k)

C9_Witness ==
  /\ op = "curveCardinal"
  /\ From > 0
  /\ To < Len(points) - 1
  /\ RangeLen = 4
  /\ tension = R(0)
  /\ result.type = "string"
  /\ Kinds(result.val) = <<"Q", "C", "Q">>

(* C10: on a range of L >= 3 points curveBasis emits exactly L + 1 C       *)
(* commands and the curve parts of the entries of curveBasisSegments,      *)
(* concatenated in order, are that same command sequence; the first entry  *)
(* moves to points[from], every later entry moves to the end point of the  *)
(* entry before it, and the final command ends at points[to].              *)
RECURSIVE Concat(_, _)
Concat(entries, i) ==
  IF i > Len(entries) THEN <<>> ELSE entries[i][2] \o Concat(entries, i + 1)

LastOf(seq) == seq[Len(seq)]

C10_BasisFlavoursAgree ==
  RangeLen >= 3 =>
    /\ op = "curveBasis" =>
         /\ result.type = "string"
         /\ Len(result.val) = RangeLen + 1
         /\ \A k \in 1..Len(result.val) : result.val[k].k = "C"
         /\ EndOf(LastOf(result.val)) = Coords(At(points, To))
    /\ op = "curveBasisSegments" =>
         /\ result.type = "array"
         /\ Concat(result.val, 1) = curveBasis(points, range).val
         /\ Len(Concat(result.val, 1)) = RangeLen + 1
         /\ \A i \in 1..Len(result.val) :
              /\ Len(result.val[i][1]) = 1
              /\ result.val[i][1][1].k = "M"
              /\ result.val[i][1][1].a =
                   IF i = 1 THEN Coords(At(points, From))
                   ELSE EndOf(LastOf(result.val[i - 1][2]))
         /\ EndOf(LastOf(LastOf(result.val)[2])) = Coords(At(points, To))

C10_Witness ==
  /\ op = "curveBasisSegments"
  /\ From > 0
  /\ RangeLen = 5
  /\ result.type = "array"
  /\ Len(Concat(result.val, 1)) = 6
  /\ \E i \in From..(To - 1) : At(points, i).top # At(points, i + 1).top
==========================================================================
